---- MODULE Spec2Model ----
(***************************************************************************)
(* Model of button_class.py: the pygame Button widget (construction,       *)
(* backing surface, face/shadow composition, hover flag, click timer) and  *)
(* the operations the demo loop applies to its buttons.                    *)
(***************************************************************************)
EXTENDS Integers, Sequences, FiniteSets, TLC

VARIABLES
    nextid,     \* next value of the class-wide itertools.count()
    cls,        \* class-level attributes Button.hovered / Button._clicked
    buttons,    \* constructed Button instances, in construction order
    now,        \* pygame.time.get_ticks(): milliseconds since pygame.init()
    permitted,  \* history: per button, clock reading of its last clicked() that returned False
    spent,      \* history: number of ids taken by constructor calls that then raised
    last        \* the operation performed by the last step and its return value

vars == <<nextid, cls, buttons, now, permitted, spent, last>>

----------------------------------------------------------------------------
(* Bounds of the explored behaviours *)

MaxButtons == 2
MaxTime == 1700
MaxGeomButtons == 1
MaxSpent == 1
MaxColorButtons == 1
MaxSide == 2
MaxOffset == 2

\* clock advances between two operations (ms)
TickSteps == {500, 600}

----------------------------------------------------------------------------
(* Python values *)

\* None, kept apart from every clock reading (readings are >= 0)
None == -1

\* bool(v) for v an int or None: None and 0 are both falsy
Truthy(v) == v # None /\ v # 0

\* int(x) for the double x = n/d, d > 0 a power of two, |n| < 2^53 (so that
\* x is the exact quotient): truncation toward zero
IntTrunc(n, d) == IF n >= 0 THEN n \div d ELSE -((-n) \div d)

Min(a, b) == IF a <= b THEN a ELSE b
Max(a, b) == IF a >= b THEN a ELSE b

----------------------------------------------------------------------------
(* Class body: nextid, hovered, _clicked *)

\* itertools.count().__next__ : the value handed out is n, the counter moves on
CountNextStuck(n) == n
CountNext(n) == n + 1

ClassAttrs == [hovered |-> FALSE, _clicked |-> None]

\* attribute lookup self.<name>: the instance attribute when set, else the class attribute
GetAttr(b, name) ==
    IF buttons[b].inst[name] = {} THEN cls[name]
    ELSE CHOOSE v \in buttons[b].inst[name] : TRUE

\* attribute assignment self.<name> = v, if it were stored on the class
SetAttrOnClass(b, name, v) ==
    /\ cls' = [cls EXCEPT ![name] = v]
    /\ buttons' = buttons

\* attribute assignment self.<name> = v : always stored on the instance
SetAttr(b, name, v) ==
    /\ buttons' = [buttons EXCEPT ![b].inst[name] = {v}]
    /\ cls' = cls

----------------------------------------------------------------------------
(* Button.__init__ *)

\* title parameter binding: title='button' when the caller passes none
BoundTitle(a) == IF a.given THEN a.title ELSE "button"

\* lines 79-81 with every title kept verbatim
MakeTitleVerbatim(title, id) == title

\* lines 79-81: the default text gets the id appended ('%s %i')
MakeTitle(title, id) ==
    IF title = "button" THEN title \o " " \o ToString(id) ELSE title

\* one channel of the derived hover colour, without the upper clamp
HoverChannelNoClamp(c, amount) == IntTrunc(c * amount.num, 2 ^ amount.exp)

\* line 101: min(255, int(c*amount)) for the double amount = num / 2^exp.
\* A double is such a quotient; with |c*num| < 2^53 the double product
\* c*amount is exact, and int() truncates it.
HoverChannel(c, amount) == Min(255, IntTrunc(c * amount.num, 2 ^ amount.exp))

\* line 101: kwargs.get('button_color_sel', tuple(...))
ButtonColorSel(a) ==
    IF a.button_color_sel # {} THEN CHOOSE c \in a.button_color_sel : TRUE
    ELSE [i \in 1..3 |-> HoverChannel(a.button_color[i], a.amount)]

\* shadow test that only disables the shadow for offset (0,0)
ShadowEnabledBoth(offset) == offset # <<0, 0>>

\* lines 165, 203: 0 not in offset
ShadowEnabled(offset) == offset[1] # 0 /\ offset[2] # 0

\* getSurf: size and pixel format of the backing surface
getSurf(size, offset) ==
    IF ShadowEnabled(offset)
    THEN [w |-> size[1] + offset[1], h |-> size[2] + offset[2], alpha |-> TRUE]
    ELSE [w |-> size[1], h |-> size[2], alpha |-> FALSE]

\* getRect: surf.get_rect() moved so that the chosen virtual attribute is at pos
getRect(surf, pos, v_attr) ==
    LET w == surf.w
        h == surf.h
        x == CASE v_attr = "center"      -> pos[1] - (w \div 2)
               [] v_attr = "topleft"     -> pos[1]
               [] v_attr = "topright"    -> pos[1] - w
               [] v_attr = "bottomleft"  -> pos[1]
               [] v_attr = "bottomright" -> pos[1] - w
               [] OTHER                  -> 0
        y == CASE v_attr = "center"      -> pos[2] - (h \div 2)
               [] v_attr = "topleft"     -> pos[2]
               [] v_attr = "topright"    -> pos[2]
               [] v_attr = "bottomleft"  -> pos[2] - h
               [] v_attr = "bottomright" -> pos[2] - h
               [] OTHER                  -> 0
    IN [x |-> x, y |-> y, w |-> w, h |-> h]

\* the instance built by __init__ from the call's arguments a, with identifier id
NewButton(a, id) ==
    LET title == MakeTitle(BoundTitle(a), id)
        surf  == getSurf(a.size, a.offset)
    IN [id |-> id,
        title |-> title,
        tag |-> title,
        size |-> a.size,
        pos |-> a.pos,
        font_unselected |-> a.unselected,
        font_selected |-> a.selected,
        button_color |-> a.button_color,
        button_color_sel |-> ButtonColorSel(a),
        highlight_button |-> a.highlight_button,
        shadow_color |-> a.shadow_color,
        offset |-> a.offset,
        v_attr |-> a.v_attr,
        surf |-> surf,
        rect |-> getRect(surf, a.pos, a.v_attr),
        blits |-> << >>,
        face |-> << >>,
        args |-> a,
        spentBefore |-> spent,
        inst |-> [hovered |-> {}, _clicked |-> {}]]

\* pygame.Surface rejects a negative width or height
SurfaceOk(a) ==
    LET s == getSurf(a.size, a.offset) IN s.w >= 0 /\ s.h >= 0

\* the call binds to the parameters (title, size, **kwargs) of line 72; a
\* third positional argument is a TypeError raised before the body runs
BindsOk(a) == ~a.surplus

\* the body runs to its end: len(title) of line 92 needs a sized title (None
\* has no len()), and getSurf needs a surface pygame accepts
BodyOk(a) == ~a.title_none /\ SurfaceOk(a)

\* Button(...): a call that does not bind changes nothing; otherwise line 75
\* takes the id first, and when the body then raises no instance comes into
\* being but the id is spent
Construct(a) ==
    /\ IF ~BindsOk(a)
       THEN /\ last' = [op |-> "unbound", btn |-> 0, ret |-> FALSE]
            /\ UNCHANGED <<nextid, buttons, permitted, spent>>
       ELSE /\ nextid' = CountNext(nextid)
            /\ IF BodyOk(a)
               THEN /\ buttons' = Append(buttons, NewButton(a, nextid))
                    /\ permitted' = Append(permitted, None)
                    /\ last' = [op |-> "construct", btn |-> Len(buttons) + 1, ret |-> FALSE]
                    /\ UNCHANGED spent
               ELSE /\ spent' = spent + 1
                    /\ last' = [op |-> "raised", btn |-> 0, ret |-> FALSE]
                    /\ UNCHANGED <<buttons, permitted>>
    /\ UNCHANGED <<cls, now>>

\* the calls explored: at most max instances, at most MaxSpent ids spent by raising calls
MayConstruct(a, max) ==
    IF ~BindsOk(a) THEN TRUE
    ELSE IF BodyOk(a) THEN Len(buttons) < max ELSE spent < MaxSpent

----------------------------------------------------------------------------
(* Button.getColors, Button.makeButton, Button.draw *)

\* getColors(txt): title colour or face colour for the current hover state
getColors(b, txt) ==
    IF GetAttr(b, "hovered")
    THEN (IF txt THEN buttons[b].font_selected ELSE buttons[b].button_color_sel)
    ELSE (IF txt THEN buttons[b].font_unselected ELSE buttons[b].button_color)

\* makeButton: the list [face] or [face, shadow]; each entry a fill colour and a rect
makeButton(b) ==
    LET size   == buttons[b].size
        offset == buttons[b].offset
        face   == [color |-> IF buttons[b].highlight_button
                             THEN getColors(b, FALSE)
                             ELSE buttons[b].button_color,
                   rect  |-> [x |-> 0, y |-> 0, w |-> size[1], h |-> size[2]]]
        shadow == [color |-> buttons[b].shadow_color,
                   rect  |-> [x |-> 0 + offset[1], y |-> 0 + offset[2],
                              w |-> size[1], h |-> size[2]]]
    IN IF ShadowEnabled(offset) THEN <<face, shadow>> ELSE <<face>>

\* Surface.blit: the part of rect r that lands on a surface of the given size
Clip(r, surf) ==
    LET x0 == Max(r.x, 0)
        y0 == Max(r.y, 0)
        x1 == Min(r.x + r.w, surf.w)
        y1 == Min(r.y + r.h, surf.h)
    IN [x |-> x0, y |-> y0, w |-> Max(0, x1 - x0), h |-> Max(0, y1 - y0)]

\* draw: shadow (when present) then face are blitted onto the backing surface
draw(b) ==
    LET button == makeButton(b)
        surf   == buttons[b].surf
        areas  == IF Len(button) = 2
                  THEN <<Clip(button[2].rect, surf), Clip(button[1].rect, surf)>>
                  ELSE <<Clip(button[1].rect, surf)>>
    IN /\ buttons' = [buttons EXCEPT ![b].blits = areas,
                                     ![b].face = button[1].color]
       /\ last' = [op |-> "draw", btn |-> b, ret |-> FALSE]
       /\ UNCHANGED <<nextid, cls, now, permitted, spent>>

----------------------------------------------------------------------------
(* Button.clicked *)

\* the half second of line 223, in clock units
ClickLimitMs == 500

\* line 223 with the timer never expiring
ExpiredNever(t, ticks) == FALSE

\* lines 222-223: seconds = (ticks - t)/1000 ; seconds > .5
Expired(t, ticks) == 2 * (ticks - t) > 1000

\* clicked() that restarts the timer on expiry instead of removing it
ClickedWriteRestart(cur, ticks) ==
    IF ~Truthy(cur) THEN {ticks}
    ELSE IF Expired(cur, ticks) THEN {ticks} ELSE {}

\* the value clicked() assigns to self._clicked ({} when it assigns nothing)
ClickedWrite(cur, ticks) ==
    IF ~Truthy(cur) THEN {ticks}
    ELSE IF Expired(cur, ticks) THEN {None} ELSE {}

\* the value clicked() returns: False allows the click, True disallows it
ClickedReturn(cur) == Truthy(cur)

clicked(b) ==
    LET cur == GetAttr(b, "_clicked")
        wr  == ClickedWrite(cur, now)
        ret == ClickedReturn(cur)
    IN /\ IF wr = {} THEN UNCHANGED <<buttons, cls>>
          ELSE SetAttr(b, "_clicked", CHOOSE v \in wr : TRUE)
       /\ permitted' = IF ret THEN permitted ELSE [permitted EXCEPT ![b] = now]
       /\ last' = [op |-> "clicked", btn |-> b, ret |-> ret]
       /\ UNCHANGED <<nextid, now, spent>>

----------------------------------------------------------------------------
(* Operations of the demo loop *)

\* main, lines 301 and 303: button.hovered = True / False
SetHovered(b, v) ==
    /\ SetAttr(b, "hovered", v)
    /\ last' = [op |-> "hovered", btn |-> b, ret |-> FALSE]
    /\ UNCHANGED <<nextid, now, permitted, spent>>

\* time passes between two operations
Tick(d) ==
    /\ now + d <= MaxTime
    /\ now' = now + d
    /\ last' = [op |-> "tick", btn |-> 0, ret |-> FALSE]
    /\ UNCHANGED <<nextid, cls, buttons, permitted, spent>>

----------------------------------------------------------------------------
(* Arguments of the constructor calls *)

\* Button(...) with every keyword argument at its default (lines 72-105)
DefaultArgs ==
    [surplus |-> FALSE, title_none |-> FALSE,
     given |-> FALSE, title |-> "button", size |-> <<60, 20>>, pos |-> <<0, 0>>,
     unselected |-> <<215, 255, 255>>, selected |-> <<225, 255, 255>>,
     amount |-> [num |-> 3, exp |-> 1], button_color |-> <<70, 130, 180>>,
     button_color_sel |-> {}, highlight_button |-> FALSE,
     shadow_color |-> <<99, 184, 255>>, offset |-> <<3, 2>>, v_attr |-> "topleft"]

\* a call pygame.Surface rejects: backing surface (1-2, 1-2)
BadArgs == [DefaultArgs EXCEPT !.size = <<1, 1>>, !.offset = <<-2, -2>>]

\* Button(None): raises at line 92
NoneTitleArgs == [DefaultArgs EXCEPT !.given = TRUE, !.title_none = TRUE]

\* Button('button', [60,20], 3): raises at the call
SurplusArgs == [DefaultArgs EXCEPT !.given = TRUE, !.surplus = TRUE]

\* calls that raise
RaisingArgs == {BadArgs, NoneTitleArgs, SurplusArgs}

Titles == {"button", "Quit"}

\* calls that pass no title, or one of Titles, and the rejected call
TitleArgs ==
    {DefaultArgs} \cup RaisingArgs
        \cup {[DefaultArgs EXCEPT !.given = TRUE, !.title = t] : t \in Titles}

Sizes == {<<w, MaxSide>> : w \in 1..MaxSide}
OffsetValues == {-MaxOffset, -1, 0, 1, MaxOffset}
Offsets == {<<dx, dy>> : dx \in OffsetValues, dy \in OffsetValues}

\* calls that vary size and offset, anchored by their centre
GeomArgs ==
    {[DefaultArgs EXCEPT !.size = s, !.offset = o, !.v_attr = "center", !.pos = <<30, 30>>] :
        s \in Sizes, o \in Offsets}

Colours == {<<70, 130, 180>>, <<0, 1, 3>>, <<90, 170, 255>>}

\* multipliers num/4
Amounts ==
    {[num |-> n, exp |-> 2] : n \in {-1, 0, 1, 3, 6, 8}}

\* calls that vary the colours, the multiplier and highlight_button
ColorArgs ==
    {[DefaultArgs EXCEPT !.button_color = c, !.amount = m, !.highlight_button = hl,
                         !.button_color_sel = sel] :
        c \in Colours, m \in Amounts, hl \in BOOLEAN, sel \in {{}, {<<255, 0, 0>>}}}

----------------------------------------------------------------------------
(* Specifications *)

Init ==
    /\ nextid = 0
    /\ cls = ClassAttrs
    /\ buttons = << >>
    /\ now = 0
    /\ permitted = << >>
    /\ spent = 0
    /\ last = [op |-> "init", btn |-> 0, ret |-> FALSE]

Ids == 1..Len(buttons)

DoConstruct == MayConstruct(DefaultArgs, MaxButtons) /\ Construct(DefaultArgs)
DoClicked == \E b \in Ids : clicked(b)
DoHovered == \E b \in Ids : \E v \in BOOLEAN : SetHovered(b, v)
DoDraw == \E b \in Ids : draw(b)
DoTick == \E d \in TickSteps : Tick(d)

Next == DoConstruct \/ DoClicked \/ DoHovered \/ DoTick

\* buttons built with the default arguments, hovered and clicked while the clock runs
Spec == Init /\ [][Next]_vars

LiveNext == DoConstruct \/ DoClicked \/ DoTick

\* the demo loop calls clicked() on a pressed button every frame and the clock runs on
LiveSpec ==
    /\ Init /\ [][LiveNext]_vars
    /\ WF_vars(DoTick)
    /\ \A b \in 1..MaxButtons : WF_vars(b \in Ids /\ clicked(b))

BuildConstruct ==
    \E a \in {DefaultArgs} \cup RaisingArgs : MayConstruct(a, MaxButtons) /\ Construct(a)
BuildNext == BuildConstruct \/ DoClicked \/ DoHovered \/ DoDraw

\* accepted and rejected constructor calls, and every operation on the built buttons
BuildSpec == Init /\ [][BuildNext]_vars

TitleConstruct == \E a \in TitleArgs : MayConstruct(a, MaxButtons) /\ Construct(a)
TitleNext == TitleConstruct \/ DoDraw

\* constructor calls over the title argument
TitleSpec == Init /\ [][TitleNext]_vars

GeomConstruct == \E a \in GeomArgs : MayConstruct(a, MaxGeomButtons) /\ Construct(a)
GeomNext == GeomConstruct \/ DoDraw

\* constructor calls over sizes and shadow offsets, and the drawing of the built buttons
GeomSpec == Init /\ [][GeomNext]_vars

ColorConstruct == \E a \in ColorArgs : MayConstruct(a, MaxColorButtons) /\ Construct(a)
ColorNext == ColorConstruct \/ DoHovered \/ DoDraw

\* constructor calls over colours and multipliers, hovering and drawing
ColorSpec == Init /\ [][ColorNext]_vars

-----
(* Properties *)

Timer(b) == GetAttr(b, "_clicked")
Hovered(b) == GetAttr(b, "hovered")
MinStep == CHOOSE d \in TickSteps : \A e \in TickSteps : d <= e

\* C1: once clicked() has returned False and recorded t, every later clicked()
\* on that button at a reading within 500 ms of t returns True and leaves the
\* timer equal to t.
C1_DisallowedWithinLimit ==
    [][\A b \in Ids :
          (clicked(b) /\ permitted[b] # None /\ now - permitted[b] <= ClickLimitMs)
              => (last'.ret = TRUE /\ Timer(b)' = permitted[b])]_vars

\* C2: with a recorded timestamp t, a clicked() call at a reading now with
\* now - t >= 500 ms clears the timer and returns True for that call.
C2_ExpiryAtLimit ==
    [][\A b \in Ids :
          (clicked(b) /\ Timer(b) # None /\ now - Timer(b) >= ClickLimitMs)
              => (last'.ret = TRUE /\ Timer(b)' = None)]_vars

IdsIncreasing ==
    \A i \in Ids : \A j \in Ids : i < j => buttons[i].id < buttons[j].id

IdsKept ==
    /\ Len(buttons') >= Len(buttons)
    /\ \A i \in Ids : buttons'[i].id = buttons[i].id

DefaultTitle(b) == "button " \o ToString(buttons[b].id)

\* C4 as stated: the title is "button <id>" exactly when the caller supplied no
\* title, every supplied string (the string "button" too) is kept verbatim, and
\* tag equals title.
C4_Original ==
    \A b \in Ids :
        /\ (buttons[b].title = DefaultTitle(b)) <=> ~buttons[b].args.given
        /\ buttons[b].args.given => buttons[b].title = buttons[b].args.title
        /\ buttons[b].tag = buttons[b].title

\* C4 amended: the title is "button <id>" whenever the title argument, defaulted
\* or supplied, is the string "button"; every other supplied string is kept
\* verbatim; tag equals title in both cases.
C4_TitleFromSentinel ==
    \A b \in Ids :
        /\ BoundTitle(buttons[b].args) = "button" => buttons[b].title = DefaultTitle(b)
        /\ BoundTitle(buttons[b].args) # "button" =>
              buttons[b].title = buttons[b].args.title
        /\ buttons[b].tag = buttons[b].title

C4_Witness ==
    \E b \in Ids : \E c \in Ids :
        /\ buttons[b].args.given /\ buttons[b].args.title = "button"
        /\ buttons[b].id = 1 /\ buttons[b].title = "button 1"
        /\ buttons[c].args.given /\ buttons[c].title = "Quit"
        /\ buttons[c].tag = "Quit"

Floor(n, d) == n \div d

DerivedAsStated(b) ==
    \A i \in 1..3 :
        LET c == buttons[b].button_color[i]
            m == buttons[b].args.amount
        IN /\ buttons[b].button_color_sel[i] = Min(255, Floor(c * m.num, 2 ^ m.exp))
           /\ buttons[b].button_color_sel[i] \in 0..255

\* C5 as stated: for every multiplier, each channel of the derived hover colour
\* is min(255, floor(c*m)) and lies in [0,255].
C5_Original ==
    \A b \in Ids : buttons[b].args.button_color_sel = {} => DerivedAsStated(b)

\* C5 amended: for every multiplier m >= 0, each channel of the derived hover
\* colour is min(255, floor(c*m)) and lies in [0,255].
C5_HoverColourNonNegative ==
    \A b \in Ids :
        (buttons[b].args.button_color_sel = {} /\ buttons[b].args.amount.num >= 0)
            => DerivedAsStated(b)

C5_Witness ==
    \E b \in Ids :
        /\ buttons[b].args.button_color_sel = {}
        /\ buttons[b].button_color = <<70, 130, 180>>
        /\ buttons[b].args.amount = [num |-> 6, exp |-> 2]
        /\ buttons[b].button_color_sel = <<105, 195, 255>>
        /\ buttons[b].face = <<105, 195, 255>>

\* C6: the backing surface is (w+dx, h+dy) with alpha when neither dx nor dy is
\* zero and exactly (w,h) opaque when at least one of them is zero; makeButton
\* returns a shadow pair under exactly the same condition.
C6_SurfaceAndShadow ==
    \A b \in Ids :
        LET w  == buttons[b].size[1]
            h  == buttons[b].size[2]
            dx == buttons[b].offset[1]
            dy == buttons[b].offset[2]
        IN IF dx # 0 /\ dy # 0
           THEN /\ buttons[b].surf = [w |-> w + dx, h |-> h + dy, alpha |-> TRUE]
                /\ Len(makeButton(b)) = 2
           ELSE /\ buttons[b].surf = [w |-> w, h |-> h, alpha |-> FALSE]
                /\ Len(makeButton(b)) = 1

C6_Witness ==
    \E b \in Ids :
        /\ buttons[b].offset = <<0, 2>>
        /\ buttons[b].surf.w = buttons[b].size[1]
        /\ buttons[b].surf.h = buttons[b].size[2]
        /\ ~buttons[b].surf.alpha
        /\ Len(buttons[b].blits) = 1

Inside(r, surf) ==
    /\ 0 <= r.x /\ r.x + r.w <= surf.w
    /\ 0 <= r.y /\ r.y + r.h <= surf.h

\* C7: when the shadow is enabled (negative offsets included) the face and the
\* shadow rectangles of makeButton lie inside the backing surface, so draw
\* blits both unclipped.
C7_NoClipping ==
    \A b \in Ids :
        ShadowEnabled(buttons[b].offset) =>
            /\ \A k \in 1..Len(makeButton(b)) :
                  Inside(makeButton(b)[k].rect, buttons[b].surf)
            /\ buttons[b].blits # << >> =>
                  buttons[b].blits = <<makeButton(b)[2].rect, makeButton(b)[1].rect>>

\* C8: the click timer is either absent or equal to the reading taken by the
\* most recent clicked() that returned False, and never exceeds the clock.
C8_TimerIsLastPermit ==
    \A b \in Ids :
        /\ Timer(b) = None \/ Timer(b) = permitted[b]
        /\ Timer(b) # None => Timer(b) <= now

C8_Witness ==
    \E b \in Ids :
        /\ Timer(b) = permitted[b] /\ Timer(b) >= ClickLimitMs
        /\ now > Timer(b)
        /\ last = [op |-> "clicked", btn |-> b, ret |-> TRUE]

\* C9: a clicked() call on button A, or an assignment to A.hovered, leaves the
\* click timer and the hovered flag of every other button B, and the result
\* of B's next clicked() call, unchanged.
C9_OtherButtonsUntouched ==
    [][\A a \in Ids : \A b \in Ids :
          (a # b /\ (clicked(a) \/ \E v \in BOOLEAN : SetHovered(a, v)))
              => /\ Timer(b)' = Timer(b)
                 /\ Hovered(b)' = Hovered(b)
                 /\ ClickedReturn(Timer(b))' = ClickedReturn(Timer(b))]_vars

C9_Witness ==
    \E a \in Ids : \E b \in Ids :
        /\ a # b
        /\ buttons[a].inst.hovered = {TRUE} /\ Truthy(Timer(a))
        /\ buttons[b].inst.hovered = {} /\ ~Hovered(b)
        /\ buttons[b].inst._clicked = {} /\ Timer(b) = None

\* the clock can still run past the expiry of the timer of b
CanExpire(b) ==
    /\ b \in Ids
    /\ Truthy(Timer(b)) => Timer(b) + ClickLimitMs + MinStep <= MaxTime

\* C10: a button does not stay disallowed forever: while clicked() keeps being
\* called and the clock keeps advancing, a later clicked() returns False.
C10_EventuallyPermitted ==
    \A b \in 1..MaxButtons :
        CanExpire(b) ~> (last = [op |-> "clicked", btn |-> b, ret |-> FALSE])

C10_Witness ==
    \E b \in Ids :
        /\ buttons[b].inst._clicked = {None}
        /\ permitted[b] >= ClickLimitMs
        /\ last = [op |-> "clicked", btn |-> b, ret |-> TRUE]

====
